---- MODULE Spec2Model ----
(***************************************************************************)
(* Authentication and session lifecycle of the backend:                    *)
(*   app/core/security.py          token issue / decode                    *)
(*   app/services/session_service.py  Redis blacklist, sessions, refresh   *)
(*                                 rotation markers, login attempt counter *)
(*   app/core/dependencies.py      get_current_user (the request gate)     *)
(*   app/api/v1/auth.py, users.py  login, refresh, logout, revocation and  *)
(*                                 password handlers                       *)
(*                                                                         *)
(* Time is counted in ticks.  A Redis key is stored as the tick at which   *)
(* it expires (0 = no such key, NoTTL = key without expiry); Tick purges   *)
(* the keys that are due.  The TTL constants keep the order of the         *)
(* source's values (lockout window < access token < refresh token), in     *)
(* ticks instead of seconds.                                               *)
(***************************************************************************)
EXTENDS Integers, Sequences, FiniteSets, TLC

\* ---------------------------------------------------------------- bounds
MaxTime == 2      \* the clock stops here
MaxTok  == 6      \* number of tokens (jti) that can be issued at all
LifeTok == 4      \* tokens issued in the specifications that let time pass
MaxVer  == 1      \* highest token_version a user reaches
MaxResetTokens == 1   \* password reset tokens outstanding at a time

\* ------------------------------------------------------- program constants
TTL_ACCESS_TOKEN   == 2   \* session_service.py:27 (60*60 s), in ticks
TTL_REFRESH_TOKEN  == 3   \* session_service.py:28 (30 days), in ticks
TTL_LOGIN_ATTEMPTS == 2   \* session_service.py:30 (15 min), in ticks
RESET_TOKEN_EXPIRE == 2   \* auth.py:377 (1 hour), in ticks
MAX_LOGIN_ATTEMPTS == 5   \* session_service.py:34
ACCESS_TOKEN_EXPIRE  == TTL_ACCESS_TOKEN    \* config.py:22, same duration
REFRESH_TOKEN_EXPIRE == TTL_REFRESH_TOKEN   \* config.py:23, same duration

Users      == {"alice", "bob"}          \* rows of the users table
Names      == Users \cup {"nobody"}     \* user_name values a client may send
ClientIps  == {"ip1"}
Passwords  == {"pw1", "pw2"}
UtcOffsets == {-1, 0, 1}                \* server local time minus UTC, in ticks
Jtis       == 1 .. MaxTok
NoTTL      == -1                        \* Redis TTL of a key without expiry
Identifiers == Names \X ClientIps

VARIABLES
    connected,    \* Redis answers PING (SessionService.is_connected)
    now,          \* datetime.utcnow(), in ticks
    utcOffset,    \* time zone of the server process
    users,        \* users table: token_version, is_active, password_hash
    resetTokens,  \* password_reset_tokens rows that are unexpired and unused
    tokens,       \* every token issued so far; the index is its jti
    blacklist,    \* token:blacklist:<jti>      -> expiry tick
    sessions,     \* session:<user>:<session>   -> expiry tick
    refreshUsed,  \* refresh:used:<jti>         -> expiry tick
    attempts,     \* login:attempts:<identifier> -> [count, exp]
    pc,           \* per request handler in flight: the step it has reached
    loc,          \* per request handler in flight: its local variables
    hist          \* history of the requests answered so far (see Init)

vars == <<connected, now, utcOffset, users, resetTokens, tokens, blacklist,
          sessions, refreshUsed, attempts, pc, loc, hist>>

Procs == {"h1", "h2"}                   \* request handlers running concurrently

NoAttempts == [count |-> 0, exp |-> 0]

\* ------------------------------------------------------------ security.py
NoPayload == [jti |-> 0, sub |-> "nobody", version |-> 0, type |-> "none", exp |-> 0]

create_access_token(sub, version, jti) ==
    [jti |-> jti, sub |-> sub, version |-> version, type |-> "access",
     exp |-> now + ACCESS_TOKEN_EXPIRE]

create_refresh_token(sub, version, jti) ==
    [jti |-> jti, sub |-> sub, version |-> version, type |-> "refresh",
     exp |-> now + REFRESH_TOKEN_EXPIRE]

\* A presented token is 0 (malformed or wrongly signed) or the jti of an issued
\* token; jwt.decode rejects the former and any token past its exp claim.
decode_token(tok) ==
    IF tok \in 1 .. Len(tokens) /\ now < tokens[tok].exp THEN tokens[tok] ELSE NoPayload

\* datetime.fromtimestamp(exp): the expiry as a naive LOCAL datetime.
get_token_expiry(payload) == payload.exp + utcOffset

\* bcrypt.checkpw against the stored hash.
\* ---- the tokens on the wire (python-jose jwt.encode / jwt.decode).  The
\* handlers above are modelled on payloads; here a token is the serialised
\* payload together with its HMAC signature.
SECRET_KEY == "server_key"              \* config.py:20
Keys       == {SECRET_KEY, "other_key"}
Uuid       == MaxTok + 1                \* str(uuid.uuid4()) when no jti is passed
JWTError   == [error |-> "JWTError"]    \* decode_token returns None

\* token_data as login and refresh_token build it (auth.py 107-113, 224-230);
\* orgId 0 stands for a user without organization (JSON null)
TokenData ==
    [sub : {"1", "2"}, role : {"admin", "employee"}, userName : {"alice"},
     orgId : {0, 1}, version : 0 .. MaxVer]

\* dict.update: the keys of e replace those of d
Update(d, e) == [k \in DOMAIN d \cup DOMAIN e |-> IF k \in DOMAIN e THEN e[k] ELSE d[k]]

\* datetime.utcnow() + timedelta: a naive UTC datetime
Datetime(t) == [utc |-> t]

\* the payload serialised: jwt.encode turns the datetimes of exp and iat into
\* integer timestamps, the other claims are JSON values already
Serialised(claims) ==
    [k \in DOMAIN claims |-> IF k \in {"exp", "iat"} THEN claims[k].utc ELSE claims[k]]

\* HMAC of the serialised payload under the key
Signature(payload, key) == [over |-> payload, key |-> key]

jwt_encode(claims, key) ==
    [payload |-> Serialised(claims), sig |-> Signature(Serialised(claims), key)]

\* decoding with the signature left unverified
jwt_decode_unverified(token, key) ==
    IF ~(now < token.payload["exp"]) THEN JWTError
    ELSE token.payload

\* jwt.decode: the signature verified under the key, then the exp claim
jwt_decode(token, key) ==
    IF token.sig # Signature(token.payload, key) THEN JWTError
    ELSE IF ~(now < token.payload["exp"]) THEN JWTError
    ELSE token.payload

\* create_access_token(data, expires_delta, jti) as a signed token;
\* expires_delta 0 and jti 0 stand for None
create_access_token_jwt(data, expires_delta, jti) ==
    LET expire == IF expires_delta # 0 THEN Datetime(now + expires_delta)
                  ELSE Datetime(now + ACCESS_TOKEN_EXPIRE)
        id == IF jti = 0 THEN Uuid ELSE jti
        to_encode == Update(data, [exp |-> expire, jti |-> id, iat |-> Datetime(now),
                                   type |-> "access"])
    IN  jwt_encode(to_encode, SECRET_KEY)

create_refresh_token_jwt(data, jti) ==
    LET expire == Datetime(now + REFRESH_TOKEN_EXPIRE)
        id == IF jti = 0 THEN Uuid ELSE jti
        to_encode == Update(data, [exp |-> expire, jti |-> id, iat |-> Datetime(now),
                                   type |-> "refresh"])
    IN  jwt_encode(to_encode, SECRET_KEY)

\* decode_token on a signed token
decode_token_jwt(token) == jwt_decode(token, SECRET_KEY)

verify_password(plain, hash) == plain = hash

\* ----------------------------------------------------- session_service.py
is_connected == connected

\* the default TTL taken from the refresh token lifetime
blacklist_token_refresh_ttl(bl, jti, ttl) ==
    IF ~is_connected THEN bl
    ELSE [bl EXCEPT ![jti] = now + (IF ttl = 0 THEN TTL_REFRESH_TOKEN ELSE ttl)]

blacklist_token(bl, jti, ttl) ==
    IF ~is_connected THEN bl
    ELSE [bl EXCEPT ![jti] = now + (IF ttl = 0 THEN TTL_ACCESS_TOKEN ELSE ttl)]

\* the check failing closed: every token counts as revoked during an outage
is_token_blacklisted_closed(bl, jti) ==
    IF ~is_connected THEN TRUE ELSE bl[jti] # 0

is_token_blacklisted(bl, jti) ==
    IF ~is_connected THEN FALSE ELSE bl[jti] # 0

\* the session stored under a key that leaves the session id out
create_session_single(se, user, jti) ==
    IF ~is_connected THEN se
    ELSE [se EXCEPT ![user] = [j \in Jtis |-> IF j = jti THEN now + TTL_ACCESS_TOKEN ELSE 0]]

create_session(se, user, jti) ==
    IF ~is_connected THEN se
    ELSE [se EXCEPT ![user][jti] = now + TTL_ACCESS_TOKEN]

get_session(se, user, sid) ==
    IF ~is_connected THEN FALSE ELSE se[user][sid] # 0

update_session_activity(se, user, sid) ==
    IF ~is_connected THEN se
    ELSE IF get_session(se, user, sid)
         THEN [se EXCEPT ![user][sid] = now + TTL_ACCESS_TOKEN]
         ELSE se

\* ---- the Redis key of a session record, a string of characters.  The two
\* rows of the users table have the ids 1 and 11, jtis are one character.
Digits == <<"1", "2", "3", "4", "5", "6", "7", "8", "9">>
StrId(user) == IF user = "alice" THEN <<"1">> ELSE <<"1", "1">>    \* str(user_id)
StrJti(jti) == <<Digits[jti]>>                                      \* str(session_id)
PREFIX_SESSION == <<"s", "e", "s", "s", "i", "o", "n">>

\* the parts joined without a separator
build_key_unseparated(prefix, user, rest) == prefix \o StrId(user) \o rest

\* _build_key: ":".join([prefix, str(user_id), rest])
build_key(prefix, user, rest) == prefix \o <<":">> \o StrId(user) \o <<":">> \o rest

\* the keys of the session records there are
session_keys(se) ==
    {build_key(PREFIX_SESSION, q[1], StrJti(q[2])) :
        q \in {r \in Users \X Jtis : se[r[1]][r[2]] # 0}}

\* KEYS pattern, for a pattern that ends in "*": the keys that begin with
\* the characters before it
keys(se, pattern) ==
    LET n == Len(pattern) - 1
    IN  {k \in session_keys(se) : Len(k) >= n /\ SubSeq(k, 1, n) = SubSeq(pattern, 1, n)}

get_user_sessions(se, user) ==
    IF ~is_connected THEN {} ELSE {j \in Jtis : se[user][j] # 0}

\* blacklist every jti of the set, one blacklist_token call each
RECURSIVE blacklist_all(_, _)
blacklist_all(bl, js) ==
    IF js = {} THEN bl
    ELSE LET j == CHOOSE x \in js : TRUE
         IN  blacklist_all(blacklist_token(bl, j, 0), js \ {j})

revoke_session(bl, se, user, sid) ==
    IF ~is_connected THEN [ok |-> FALSE, bl |-> bl, se |-> se]
    ELSE [ok |-> TRUE,
          bl |-> IF get_session(se, user, sid) THEN blacklist_token(bl, sid, 0) ELSE bl,
          se |-> [se EXCEPT ![user][sid] = 0]]

\* the session keys deleted without blacklisting their tokens
revoke_all_user_sessions_unlisted(bl, se, user) ==
    IF ~is_connected THEN [count |-> 0, bl |-> bl, se |-> se]
    ELSE [count |-> Cardinality(get_user_sessions(se, user)),
          bl |-> bl,
          se |-> [se EXCEPT ![user] = [j \in Jtis |-> 0]]]

revoke_all_user_sessions(bl, se, user) ==
    IF ~is_connected THEN [count |-> 0, bl |-> bl, se |-> se]
    ELSE LET listed == get_user_sessions(se, user)
         IN  [count |-> Cardinality(listed),
              bl |-> blacklist_all(bl, listed),
              se |-> [se EXCEPT ![user] = [j \in Jtis |-> 0]]]

\* revoke_all_user_sessions in its two passes over Redis: the sessions listed
\* are blacklisted (session_service.py 311-319), then every session key found
\* by a second KEYS is deleted (321-327)
revoke_all_list(bl, se, user) == blacklist_all(bl, get_user_sessions(se, user))

revoke_all_delete(se, user) ==
    IF ~is_connected THEN se ELSE [se EXCEPT ![user] = [j \in Jtis |-> 0]]

mark_refresh_token_used(ru, jti) ==
    IF ~is_connected THEN ru
    ELSE [ru EXCEPT ![jti] = now + TTL_REFRESH_TOKEN]

\* the lookup answering "not used" whatever the store holds
is_refresh_token_used_never(ru, jti) == FALSE

is_refresh_token_used(ru, jti) ==
    IF ~is_connected THEN FALSE ELSE ru[jti] # 0

\* a success that leaves the counter in place
record_login_attempt_keeps(att, id, success) ==
    IF ~is_connected THEN att
    ELSE IF success THEN att
    ELSE IF att[id].count = 0
         THEN [att EXCEPT ![id] = [count |-> 1, exp |-> now + TTL_LOGIN_ATTEMPTS]]
         ELSE [att EXCEPT ![id].count = @ + 1]

\* every failure written with SETEX, restarting the TTL
record_login_attempt_sliding(att, id, success) ==
    IF ~is_connected THEN att
    ELSE IF success THEN [att EXCEPT ![id] = NoAttempts]
    ELSE [att EXCEPT ![id] = [count |-> att[id].count + 1,
                              exp |-> now + TTL_LOGIN_ATTEMPTS]]

\* INCR leaves the TTL of the key alone.
record_login_attempt(att, id, success) ==
    IF ~is_connected THEN att
    ELSE IF success THEN [att EXCEPT ![id] = NoAttempts]
    ELSE IF att[id].count = 0
         THEN [att EXCEPT ![id] = [count |-> 1, exp |-> now + TTL_LOGIN_ATTEMPTS]]
         ELSE [att EXCEPT ![id].count = @ + 1]

get_login_attempts(att, id) ==
    IF ~is_connected THEN 0 ELSE att[id].count

\* the threshold compared with > instead of >=
is_login_blocked_above(att, id) ==
    get_login_attempts(att, id) > MAX_LOGIN_ATTEMPTS

is_login_blocked(att, id) ==
    get_login_attempts(att, id) >= MAX_LOGIN_ATTEMPTS

get_login_block_ttl(att, id) ==
    IF ~is_connected THEN 0
    ELSE IF ~is_login_blocked(att, id) THEN 0
    ELSE IF att[id].exp = NoTTL THEN 0
    ELSE att[id].exp - now

\* ----------------------------------------------------------- dependencies.py
\* get_current_user: the verdict on a bearer token and the session registry
\* after the touch.  The checks run in the order of the code.
\* the comparison left out: any embedded version passes
version_matches_any(token_version, user_version) == TRUE

version_matches(token_version, user_version) == token_version = user_version

\* the gate with the session registry made a control: a token whose session
\* record is absent is turned away
\* the gate with the version compared before the blacklist is asked
get_current_user_version_first(tok, bl, se) ==
    LET payload == decode_token(tok)
        user    == payload.sub
    IN  IF payload = NoPayload THEN [res |-> "invalid", user |-> user, se |-> se]
        ELSE IF ~version_matches(payload.version, users[user].token_version)
             THEN [res |-> "stale", user |-> user, se |-> se]
        ELSE IF is_token_blacklisted(bl, payload.jti)
             THEN [res |-> "revoked", user |-> user, se |-> se]
        ELSE IF ~users[user].is_active
             THEN [res |-> "inactive", user |-> user, se |-> se]
        ELSE [res |-> "ok", user |-> user,
              se |-> update_session_activity(se, user, payload.jti)]

get_current_user_needs_session(tok, bl, se) ==
    LET payload == decode_token(tok)
        user    == payload.sub
    IN  IF payload = NoPayload THEN [res |-> "invalid", user |-> user, se |-> se]
        ELSE IF is_token_blacklisted(bl, payload.jti)
             THEN [res |-> "revoked", user |-> user, se |-> se]
        ELSE IF ~users[user].is_active
             THEN [res |-> "inactive", user |-> user, se |-> se]
        ELSE IF ~version_matches(payload.version, users[user].token_version)
             THEN [res |-> "stale", user |-> user, se |-> se]
        ELSE IF ~get_session(se, user, payload.jti)
             THEN [res |-> "revoked", user |-> user, se |-> se]
        ELSE [res |-> "ok", user |-> user,
              se |-> update_session_activity(se, user, payload.jti)]

get_current_user(tok, bl, se) ==
    LET payload == decode_token(tok)
        user    == payload.sub
    IN  IF payload = NoPayload THEN [res |-> "invalid", user |-> user, se |-> se]
        ELSE IF is_token_blacklisted(bl, payload.jti)
             THEN [res |-> "revoked", user |-> user, se |-> se]
        ELSE IF ~users[user].is_active
             THEN [res |-> "inactive", user |-> user, se |-> se]
        ELSE IF ~version_matches(payload.version, users[user].token_version)
             THEN [res |-> "stale", user |-> user, se |-> se]
        ELSE [res |-> "ok", user |-> user,
              se |-> update_session_activity(se, user, payload.jti)]

\* ------------------------------------------------------------------ auth.py
\* the access and refresh token of one issuance, with fresh jtis
new_pair(user) ==
    LET n == Len(tokens)
    IN  <<create_access_token(user, users[user].token_version, n + 1),
          create_refresh_token(user, users[user].token_version, n + 2)>>

\* the credentials checked, and the failure counted, before the block check
login_counts_while_locked(name, ip, password) ==
    LET id == <<name, ip>>
        same == [res |-> "locked", checked |-> FALSE, att |-> attempts,
                 se |-> sessions, toks |-> tokens]
        bad == name \notin Users \/ ~verify_password(password, users[name].password_hash)
    IN  IF bad
        THEN [same EXCEPT !.res = IF is_login_blocked(attempts, id)
                                  THEN "locked" ELSE "invalid_credentials",
                          !.checked = TRUE,
                          !.att = record_login_attempt(attempts, id, FALSE)]
        ELSE IF is_login_blocked(attempts, id) THEN [same EXCEPT !.checked = TRUE]
        ELSE IF ~users[name].is_active
             THEN [same EXCEPT !.res = "deactivated", !.checked = TRUE]
        ELSE [res |-> "ok", checked |-> TRUE,
              att |-> record_login_attempt(attempts, id, TRUE),
              se |-> create_session(sessions, name, Len(tokens) + 1),
              toks |-> tokens \o new_pair(name)]

\* a login that fails when its session cannot be registered
\* a login that tells an unknown user name apart and does not count it
login_reveals_user(name, ip, password) ==
    LET id == <<name, ip>>
        same == [res |-> "locked", checked |-> FALSE, att |-> attempts,
                 se |-> sessions, toks |-> tokens]
    IN  IF is_login_blocked(attempts, id) THEN same
        ELSE IF name \notin Users
             THEN [same EXCEPT !.res = "user_not_found", !.checked = TRUE]
        ELSE IF ~verify_password(password, users[name].password_hash)
             THEN [same EXCEPT !.res = "invalid_credentials", !.checked = TRUE,
                               !.att = record_login_attempt(attempts, id, FALSE)]
        ELSE IF ~users[name].is_active
             THEN [same EXCEPT !.res = "deactivated", !.checked = TRUE]
        ELSE [res |-> "ok", checked |-> TRUE,
              att |-> record_login_attempt(attempts, id, TRUE),
              se |-> create_session(sessions, name, Len(tokens) + 1),
              toks |-> tokens \o new_pair(name)]

login_needs_store(name, ip, password) ==
    LET id == <<name, ip>>
        same == [res |-> "locked", checked |-> FALSE, att |-> attempts,
                 se |-> sessions, toks |-> tokens]
    IN  IF is_login_blocked(attempts, id) THEN same
        ELSE IF name \notin Users
             THEN [same EXCEPT !.res = "invalid_credentials", !.checked = TRUE,
                               !.att = record_login_attempt(attempts, id, FALSE)]
        ELSE IF ~verify_password(password, users[name].password_hash)
             THEN [same EXCEPT !.res = "invalid_credentials", !.checked = TRUE,
                               !.att = record_login_attempt(attempts, id, FALSE)]
        ELSE IF ~users[name].is_active
             THEN [same EXCEPT !.res = "deactivated", !.checked = TRUE]
        ELSE IF ~is_connected
             THEN [same EXCEPT !.res = "unavailable", !.checked = TRUE]
        ELSE [res |-> "ok", checked |-> TRUE,
              att |-> record_login_attempt(attempts, id, TRUE),
              se |-> create_session(sessions, name, Len(tokens) + 1),
              toks |-> tokens \o new_pair(name)]

login(name, ip, password) ==
    LET id == <<name, ip>>
        same == [res |-> "locked", checked |-> FALSE, att |-> attempts,
                 se |-> sessions, toks |-> tokens]
    IN  IF is_login_blocked(attempts, id) THEN same
        ELSE IF name \notin Users
             THEN [same EXCEPT !.res = "invalid_credentials", !.checked = TRUE,
                               !.att = record_login_attempt(attempts, id, FALSE)]
        ELSE IF ~verify_password(password, users[name].password_hash)
             THEN [same EXCEPT !.res = "invalid_credentials", !.checked = TRUE,
                               !.att = record_login_attempt(attempts, id, FALSE)]
        ELSE IF ~users[name].is_active
             THEN [same EXCEPT !.res = "deactivated", !.checked = TRUE]
        ELSE [res |-> "ok", checked |-> TRUE,
              att |-> record_login_attempt(attempts, id, TRUE),
              se |-> create_session(sessions, name, Len(tokens) + 1),
              toks |-> tokens \o new_pair(name)]

\* reuse reported without revoking the user's sessions
\* the reuse check without the type check before it
refresh_check_any_type(tok) ==
    LET payload == decode_token(tok)
        same    == [res |-> "invalid", typed |-> FALSE, bl |-> blacklist, se |-> sessions]
    IN  IF payload = NoPayload THEN same
        ELSE IF is_refresh_token_used(refreshUsed, payload.jti)
             THEN LET r == revoke_all_user_sessions(blacklist, sessions, payload.sub)
                  IN  [res |-> "reuse", typed |-> TRUE, bl |-> r.bl, se |-> r.se]
        ELSE [same EXCEPT !.res = "unused", !.typed = TRUE]

refresh_check_keeps_sessions(tok) ==
    LET payload == decode_token(tok)
        same    == [res |-> "invalid", typed |-> FALSE, bl |-> blacklist, se |-> sessions]
    IN  IF payload = NoPayload THEN same
        ELSE IF payload.type # "refresh" THEN [same EXCEPT !.res = "invalid_type"]
        ELSE IF is_refresh_token_used(refreshUsed, payload.jti)
             THEN [same EXCEPT !.res = "reuse", !.typed = TRUE]
        ELSE [same EXCEPT !.res = "unused", !.typed = TRUE]

\* refresh_token up to the reuse check (auth.py 159-186): one read of Redis
refresh_check(tok) ==
    LET payload == decode_token(tok)
        same    == [res |-> "invalid", typed |-> FALSE, bl |-> blacklist, se |-> sessions]
    IN  IF payload = NoPayload THEN same
        ELSE IF payload.type # "refresh" THEN [same EXCEPT !.res = "invalid_type"]
        ELSE IF is_refresh_token_used(refreshUsed, payload.jti)
             THEN LET r == revoke_all_user_sessions(blacklist, sessions, payload.sub)
                  IN  [res |-> "reuse", typed |-> TRUE, bl |-> r.bl, se |-> r.se]
        ELSE [same EXCEPT !.res = "unused", !.typed = TRUE]

\* refresh_token after the reuse check (auth.py 188-248): user and version
\* checks, then the marker is written and the new pair issued
\* the rotation replacing the user's sessions by the new one
refresh_rotate_replacing(payload) ==
    LET user == payload.sub
        same == [res |-> "inactive", se |-> sessions, ru |-> refreshUsed, toks |-> tokens]
    IN  IF ~users[user].is_active THEN same
        ELSE IF ~version_matches(payload.version, users[user].token_version)
             THEN [same EXCEPT !.res = "stale"]
        ELSE [res |-> "ok",
              se |-> create_session_single(sessions, user, Len(tokens) + 1),
              ru |-> mark_refresh_token_used(refreshUsed, payload.jti),
              toks |-> tokens \o new_pair(user)]

refresh_rotate(payload) ==
    LET user == payload.sub
        same == [res |-> "inactive", se |-> sessions, ru |-> refreshUsed, toks |-> tokens]
    IN  IF ~users[user].is_active THEN same
        ELSE IF ~version_matches(payload.version, users[user].token_version)
             THEN [same EXCEPT !.res = "stale"]
        ELSE [res |-> "ok",
              se |-> create_session(sessions, user, Len(tokens) + 1),
              ru |-> mark_refresh_token_used(refreshUsed, payload.jti),
              toks |-> tokens \o new_pair(user)]

\* the whole handler, run without interruption
refresh_token(tok) ==
    LET c == refresh_check(tok)
        r == refresh_rotate(decode_token(tok))
    IN  IF c.res # "unused"
        THEN [res |-> c.res, typed |-> c.typed, bl |-> c.bl, se |-> c.se,
              ru |-> refreshUsed, toks |-> tokens]
        ELSE [res |-> r.res, typed |-> TRUE, bl |-> blacklist, se |-> r.se,
              ru |-> r.ru, toks |-> r.toks]

\* logout runs behind get_current_active_user; its own body follows the gate.
logout(tok) ==
    LET gate == get_current_user(tok, blacklist, sessions)
        payload == decode_token(tok)
        remaining_seconds == get_token_expiry(payload) - now
        bl1 == IF remaining_seconds > 0
               THEN blacklist_token(blacklist, payload.jti, remaining_seconds)
               ELSE blacklist
        r == revoke_session(bl1, gate.se, gate.user, payload.jti)
    IN  IF gate.res # "ok" THEN [res |-> gate.res, bl |-> blacklist, se |-> gate.se]
        ELSE [res |-> "ok", bl |-> r.bl, se |-> r.se]

\* the endpoint without the ownership check: revoke_session for whatever id
revoke_specific_session_unchecked(tok, sid) ==
    LET gate == get_current_user(tok, blacklist, sessions)
        owner == IF sid \in 1 .. Len(tokens) THEN tokens[sid].sub ELSE gate.user
        r == revoke_session(blacklist, gate.se, owner, sid)
    IN  IF gate.res # "ok" THEN [res |-> gate.res, bl |-> blacklist, se |-> gate.se]
        ELSE [res |-> IF r.ok THEN "ok" ELSE "error", bl |-> r.bl, se |-> r.se]

revoke_specific_session(tok, sid) ==
    LET gate == get_current_user(tok, blacklist, sessions)
        r == revoke_session(blacklist, gate.se, gate.user, sid)
    IN  IF gate.res # "ok" THEN [res |-> gate.res, bl |-> blacklist, se |-> gate.se]
        ELSE IF ~get_session(gate.se, gate.user, sid)
             THEN [res |-> "not_found", bl |-> blacklist, se |-> gate.se]
        ELSE [res |-> IF r.ok THEN "ok" ELSE "error", bl |-> r.bl, se |-> r.se]

revoke_all_sessions(tok) ==
    LET gate == get_current_user(tok, blacklist, sessions)
        r == revoke_all_user_sessions(blacklist, gate.se, gate.user)
    IN  IF gate.res # "ok"
        THEN [res |-> gate.res, count |-> 0, bl |-> blacklist, se |-> gate.se]
        ELSE [res |-> "ok", count |-> r.count, bl |-> r.bl, se |-> r.se]

\* True when the handler bumps token_version and revokes the user's sessions
\* together with the new password (only auth.change_password does).
change_password_invalidates   == TRUE
change_own_password_invalidates == FALSE
reset_password_invalidates    == FALSE
reset_user_password_invalidates == FALSE

\* the database and Redis after a password has been stored for `user`
set_password(user, new_password, invalidates, bl, se) ==
    LET r == revoke_all_user_sessions(bl, se, user)
    IN  [db |-> [users EXCEPT ![user].password_hash = new_password,
                              ![user].token_version = IF invalidates THEN @ + 1 ELSE @],
         bl |-> IF invalidates THEN r.bl ELSE bl,
         se |-> IF invalidates THEN r.se ELSE se]

\* auth.change_password and users.change_own_password: the same checks, then
\* set_password.  Passwords holds only values the request schema admits
\* (min_length 8), so the handlers' own length check never fails.
change_password(tok, old_password, new_password, invalidates) ==
    LET gate == get_current_user(tok, blacklist, sessions)
        hash == users[gate.user].password_hash
        keep == [res |-> gate.res, db |-> users, bl |-> blacklist, se |-> gate.se]
    IN  IF gate.res # "ok" THEN keep
        ELSE IF ~verify_password(old_password, hash)
             THEN [keep EXCEPT !.res = "wrong_password"]
        ELSE IF verify_password(new_password, hash)
             THEN [keep EXCEPT !.res = "same_password"]
        ELSE [res |-> "ok"] @@ set_password(gate.user, new_password, invalidates,
                                            blacklist, gate.se)


\* auth.forgot_password: a reset token row for an existing user
forgot_password(name) ==
    IF name \notin Users THEN resetTokens
    ELSE resetTokens \cup {[user |-> name, expires_at |-> now + RESET_TOKEN_EXPIRE]}

\* auth.reset_password: `row` is the row the presented token hashes to
reset_password(row, new_password) ==
    IF row \notin resetTokens \/ ~(row.expires_at > now)
    THEN [res |-> "invalid", rt |-> resetTokens, db |-> users,
          bl |-> blacklist, se |-> sessions]
    ELSE [res |-> "ok", rt |-> resetTokens \ {row}]
         @@ set_password(row.user, new_password, reset_password_invalidates,
                         blacklist, sessions)

\* users.reset_user_password, called by an administrator allowed to
reset_user_password(user, new_password) ==
    set_password(user, new_password, reset_user_password_invalidates, blacklist, sessions)

\* users.delete_user (soft delete) and users.activate_user
delete_user(user)   == [users EXCEPT ![user].is_active = FALSE]
activate_user(user) == [users EXCEPT ![user].is_active = TRUE]

\* ------------------------------------------------------------------ state
Purge(m, t) == [k \in DOMAIN m |-> IF m[k] > 0 /\ m[k] <= t THEN 0 ELSE m[k]]

PurgeAttempts(att, t) ==
    [k \in DOMAIN att |-> IF att[k].exp > 0 /\ att[k].exp <= t THEN NoAttempts ELSE att[k]]

Window == 1 .. TTL_LOGIN_ATTEMPTS
NoFailures == [a \in Window |-> 0]
RECURSIVE Sum(_, _)
Sum(f, n) == IF n = 0 THEN 0 ELSE f[n] + Sum(f, n - 1)
Min(a, b) == IF a < b THEN a ELSE b

Idle == [tok |-> 0]

\* hist records what the requests answered so far did:
\*   loggedOut    tokens whose logout request returned success
\*   redemptions  per refresh jti, the refresh requests that succeeded with it
\*   redeemedUp   refresh jtis redeemed while the store was reachable
\*   presented    refresh jtis that passed decode and the type check
\*   reused       refresh jtis refused as reused
\*   refusedStale refresh jtis refused for their token version
\*   failures     per identifier, the failed logins of each of the last
\*                TTL_LOGIN_ATTEMPTS ticks since its last successful login
\*   unregistered access jtis issued while the store was unreachable
\*   revokedAll   the largest count a revoke-all request has returned
\*   removed      jtis whose session record a revocation deleted
\*   recorded     per identifier, the failures record_login_attempt has
\*                recorded since the last success or expiry of its counter
\*   massRevoked  jtis issued to a user before a mass revocation of that user
\*                answered (revoke-all endpoint, or refresh-token reuse)
\*   kept         the fields above that this behaviour records
\*   lockedOut    identifiers refused as locked with the right password
\*   cleared      identifiers whose counter a successful login deleted
InitHist(kept) ==
    [kept |-> kept, loggedOut |-> {}, redemptions |-> [j \in Jtis |-> 0], redeemedUp |-> {},
     presented |-> {}, reused |-> {}, refusedStale |-> {},
     failures |-> [i \in Identifiers |-> NoFailures],
     lockedOut |-> {}, cleared |-> {}, removed |-> {},
     unregistered |-> {}, revokedAll |-> 0, massRevoked |-> {},
     recorded |-> [i \in Identifiers |-> 0]]

\* a history field after a step: its new value when it is kept, its old one otherwise
Keep(f, old, new) == IF f \in hist.kept THEN new ELSE old

\* the tokens issued to the user so far
IssuedTo(user) == {j \in 1 .. Len(tokens) : tokens[j].sub = user}

\* the session ids present in se and absent from se2
Removed(se, se2) == {j \in Jtis : \E u \in Users : se[u][j] # 0 /\ se2[u][j] = 0}

\* failed logins of the identifier during the last TTL_LOGIN_ATTEMPTS ticks
RecentFailures(id) == Sum(hist.failures[id], TTL_LOGIN_ATTEMPTS)

Start(kept) ==
    /\ connected \in BOOLEAN
    /\ now = 0
    /\ utcOffset \in UtcOffsets
    /\ users = [u \in Users |->
                  [token_version |-> 0, is_active |-> TRUE, password_hash |-> "pw1"]]
    /\ resetTokens = {}
    /\ tokens = <<>>
    /\ blacklist = [j \in Jtis |-> 0]
    /\ sessions = [u \in Users |-> [j \in Jtis |-> 0]]
    /\ refreshUsed = [j \in Jtis |-> 0]
    /\ attempts = [i \in Identifiers |-> NoAttempts]
    /\ pc = [p \in Procs |-> "idle"]
    /\ loc = [p \in Procs |-> Idle]
    /\ hist = InitHist(kept)

\* the histories kept by the specifications below
RotationHistory == {"redemptions", "redeemedUp", "presented", "reused", "refusedStale"}
LogoutHistory   == {"loggedOut"}
ThrottleHistory == {"failures", "lockedOut", "cleared"}
SessionHistory  == {"removed", "unregistered", "revokedAll"}
MassHistory     == {"massRevoked"}
AttemptHistory  == {"recorded"}

Init == Start({"redemptions", "redeemedUp", "reused"} \cup LogoutHistory)

Presentable == 0 .. Len(tokens)
\* the session ids a client knows of: the jtis of the access tokens issued
SessionIds == {j \in 1 .. Len(tokens) : tokens[j].type = "access"}

env   == <<connected, now, utcOffset>>
procs == <<pc, loc>>

\* ---------------------------------------------------------------- actions
\* `cap` bounds the tokens issued: a request that would issue beyond it is
\* not taken.
Login(name, ip, password, cap) ==
    LET r == login(name, ip, password)
        id == <<name, ip>>
        good == name \in Users /\ verify_password(password, users[name].password_hash)
    IN  /\ r.res = "ok" => Len(tokens) + 2 <= cap
        /\ attempts' = r.att
        /\ sessions' = r.se
        /\ tokens' = r.toks
        /\ hist' = [hist EXCEPT
             !.failures =
                 Keep("failures", @, IF r.res = "ok" THEN [@ EXCEPT ![id] = NoFailures]
                 ELSE IF r.res = "invalid_credentials"
                      THEN [@ EXCEPT ![id][1] = Min(MAX_LOGIN_ATTEMPTS, @ + 1)]
                      ELSE @),
             !.lockedOut = Keep("lockedOut", @, IF r.res = "locked" /\ good THEN @ \cup {id} ELSE @),
             !.cleared = Keep("cleared", @, IF r.res = "ok" /\ attempts[id].count > 0 /\ r.att[id].count = 0
                         THEN @ \cup {id} ELSE @),
             !.unregistered = Keep("unregistered", @, IF r.res = "ok" /\ ~connected
                              THEN @ \cup {Len(tokens) + 1} ELSE @),
             !.recorded = Keep("recorded", @,
                              IF r.res = "ok" /\ connected THEN [@ EXCEPT ![id] = 0]
                              ELSE IF r.res = "invalid_credentials" /\ connected
                                   THEN [@ EXCEPT ![id] = @ + 1]
                                   ELSE @)]
        /\ UNCHANGED <<env, users, resetTokens, blacklist, refreshUsed, procs>>

\* any endpoint behind get_current_user that does nothing else to this state
ValidateRequest(tok) ==
    LET r == get_current_user(tok, blacklist, sessions)
    IN  /\ sessions' = r.se
        /\ UNCHANGED <<env, users, resetTokens, tokens, blacklist, refreshUsed,
                       attempts, procs, hist>>

Refresh(tok, cap) ==
    LET r == refresh_token(tok)
    IN  /\ r.res = "ok" => Len(tokens) + 2 <= cap
        /\ blacklist' = r.bl
        /\ sessions' = r.se
        /\ refreshUsed' = r.ru
        /\ tokens' = r.toks
        /\ hist' = [hist EXCEPT
             !.redemptions = Keep("redemptions", @, IF r.res = "ok" THEN [@ EXCEPT ![tok] = @ + 1] ELSE @),
             !.redeemedUp = Keep("redeemedUp", @, IF r.res = "ok" /\ connected THEN @ \cup {tok} ELSE @),
             !.presented = Keep("presented", @, IF r.typed THEN @ \cup {tok} ELSE @),
             !.reused = Keep("reused", @, IF r.res = "reuse" THEN @ \cup {tok} ELSE @),
             !.refusedStale = Keep("refusedStale", @, IF r.res = "stale" THEN @ \cup {tok} ELSE @),
             !.unregistered = Keep("unregistered", @, IF r.res = "ok" /\ ~connected
                              THEN @ \cup {Len(tokens) + 1} ELSE @),
             !.massRevoked = Keep("massRevoked", @, IF r.res = "reuse"
                              THEN @ \cup IssuedTo(tokens[tok].sub) ELSE @)]
        /\ UNCHANGED <<env, users, resetTokens, attempts, procs>>

Logout(tok) ==
    LET r == logout(tok)
    IN  /\ blacklist' = r.bl
        /\ sessions' = r.se
        /\ hist' = [hist EXCEPT
             !.loggedOut = Keep("loggedOut", @, IF r.res = "ok" THEN @ \cup {tok} ELSE @),
             !.removed = Keep("removed", @, @ \cup Removed(sessions, r.se))]
        /\ UNCHANGED <<env, users, resetTokens, tokens, refreshUsed, attempts, procs>>

RevokeSession(tok, sid) ==
    LET r == revoke_specific_session(tok, sid)
    IN  /\ blacklist' = r.bl
        /\ sessions' = r.se
        /\ hist' = [hist EXCEPT !.removed = Keep("removed", @, @ \cup Removed(sessions, r.se))]
        /\ UNCHANGED <<env, users, resetTokens, tokens, refreshUsed, attempts, procs>>

RevokeAll(tok) ==
    LET r == revoke_all_sessions(tok)
    IN  /\ blacklist' = r.bl
        /\ sessions' = r.se
        /\ hist' = [hist EXCEPT !.removed = Keep("removed", @, @ \cup Removed(sessions, r.se)),
                                !.revokedAll = Keep("revokedAll", @, IF r.count > @ THEN r.count ELSE @),
                                !.massRevoked = Keep("massRevoked", @, IF r.res = "ok"
                                    THEN @ \cup IssuedTo(tokens[tok].sub) ELSE @)]
        /\ UNCHANGED <<env, users, resetTokens, tokens, refreshUsed, attempts, procs>>

\* a password handler's result r written back; a version beyond MaxVer is not taken
StorePassword(r) ==
    /\ \A u \in Users : r.db[u].token_version <= MaxVer
    /\ users' = r.db
    /\ blacklist' = r.bl
    /\ sessions' = r.se

ChangePassword(tok, old_password, new_password) ==
    /\ StorePassword(change_password(tok, old_password, new_password,
                                     change_password_invalidates))
    /\ UNCHANGED <<env, resetTokens, tokens, refreshUsed, attempts, procs, hist>>

ChangeOwnPassword(tok, old_password, new_password) ==
    /\ StorePassword(change_password(tok, old_password, new_password,
                                     change_own_password_invalidates))
    /\ UNCHANGED <<env, resetTokens, tokens, refreshUsed, attempts, procs, hist>>

ForgotPassword(name) ==
    /\ Cardinality(resetTokens) < MaxResetTokens
    /\ resetTokens' = forgot_password(name)
    /\ UNCHANGED <<env, users, tokens, blacklist, sessions, refreshUsed, attempts,
                   procs, hist>>

ResetPassword(row, new_password) ==
    LET r == reset_password(row, new_password)
    IN  /\ StorePassword(r)
        /\ resetTokens' = r.rt
        /\ UNCHANGED <<env, tokens, refreshUsed, attempts, procs, hist>>

ResetUserPassword(user, new_password) ==
    /\ StorePassword(reset_user_password(user, new_password))
    /\ UNCHANGED <<env, resetTokens, tokens, refreshUsed, attempts, procs, hist>>

DeleteUser(user) ==
    /\ users' = delete_user(user)
    /\ UNCHANGED <<env, resetTokens, tokens, blacklist, sessions, refreshUsed, attempts,
                   procs, hist>>

ActivateUser(user) ==
    /\ users' = activate_user(user)
    /\ UNCHANGED <<env, resetTokens, tokens, blacklist, sessions, refreshUsed, attempts,
                   procs, hist>>

\* Redis becomes unreachable / reachable again
StoreDown ==
    /\ connected
    /\ connected' = FALSE
    /\ UNCHANGED <<now, utcOffset, users, resetTokens, tokens, blacklist, sessions,
                   refreshUsed, attempts, procs, hist>>

StoreUp ==
    /\ ~connected
    /\ connected' = TRUE
    /\ UNCHANGED <<now, utcOffset, users, resetTokens, tokens, blacklist, sessions,
                   refreshUsed, attempts, procs, hist>>

\* one tick passes; Redis drops the keys whose TTL has run out
Tick ==
    /\ now < MaxTime
    /\ now' = now + 1
    /\ blacklist' = Purge(blacklist, now + 1)
    /\ sessions' = [u \in Users |-> Purge(sessions[u], now + 1)]
    /\ refreshUsed' = Purge(refreshUsed, now + 1)
    /\ attempts' = PurgeAttempts(attempts, now + 1)
    /\ hist' = [hist EXCEPT
                  !.failures =
                      Keep("failures", @, [i \in Identifiers |->
                          [a \in Window |-> IF a = 1 THEN 0 ELSE hist.failures[i][a - 1]]]),
                  !.recorded =
                      Keep("recorded", @, [i \in Identifiers |->
                          IF PurgeAttempts(attempts, now + 1)[i] # attempts[i]
                          THEN 0 ELSE hist.recorded[i]])]
    /\ UNCHANGED <<connected, utcOffset, users, resetTokens, tokens, procs>>

\* ---- a failing login step by step: the block check, the credentials and
\* the EXISTS of record_login_attempt (session_service.py 471), then its SETEX
\* (472) or its INCR (475), which creates a missing key without expiry
AttemptRead(p, name, ip, password) ==
    LET id == <<name, ip>>
    IN  /\ pc[p] = "idle"
        /\ is_connected
        /\ login(name, ip, password).res = "invalid_credentials"
        /\ pc' = [pc EXCEPT ![p] = "attempt_read"]
        /\ loc' = [loc EXCEPT ![p] = [tok |-> 0, id |-> id, exists |-> attempts[id].count # 0]]
        /\ UNCHANGED <<env, users, resetTokens, tokens, blacklist, sessions, refreshUsed,
                       attempts, hist>>

AttemptWrite(p) ==
    LET id == loc[p].id
    IN  /\ pc[p] = "attempt_read"
        /\ attempts' =
              IF ~loc[p].exists
              THEN [attempts EXCEPT ![id] = [count |-> 1, exp |-> now + TTL_LOGIN_ATTEMPTS]]
              ELSE IF attempts[id].count = 0
                   THEN [attempts EXCEPT ![id] = [count |-> 1, exp |-> NoTTL]]
                   ELSE [attempts EXCEPT ![id].count = @ + 1]
        /\ hist' = [hist EXCEPT !.recorded = Keep("recorded", @, [@ EXCEPT ![id] = @ + 1])]
        /\ pc' = [pc EXCEPT ![p] = "idle"]
        /\ loc' = [loc EXCEPT ![p] = Idle]
        /\ UNCHANGED <<env, users, resetTokens, tokens, blacklist, sessions, refreshUsed>>

\* ---- refresh_token step by step, for handlers that run concurrently
RefreshCheck(p, tok) ==
    LET c == refresh_check(tok)
    IN  /\ pc[p] = "idle"
        /\ blacklist' = c.bl
        /\ sessions' = c.se
        /\ hist' = [hist EXCEPT
             !.presented = Keep("presented", @, IF c.typed THEN @ \cup {tok} ELSE @),
             !.reused = Keep("reused", @, IF c.res = "reuse" THEN @ \cup {tok} ELSE @)]
        /\ pc' = [pc EXCEPT ![p] = IF c.res = "unused" THEN "refresh_unused" ELSE "idle"]
        /\ loc' = [loc EXCEPT ![p] = IF c.res = "unused" THEN [tok |-> tok] ELSE Idle]
        /\ UNCHANGED <<env, users, resetTokens, tokens, refreshUsed, attempts>>

RefreshRotate(p, cap) ==
    LET tok == loc[p].tok
        r == refresh_rotate(tokens[tok])
    IN  /\ pc[p] = "refresh_unused"
        /\ r.res = "ok" => Len(tokens) + 2 <= cap
        /\ sessions' = r.se
        /\ refreshUsed' = r.ru
        /\ tokens' = r.toks
        /\ hist' = [hist EXCEPT
             !.redemptions = Keep("redemptions", @, IF r.res = "ok" THEN [@ EXCEPT ![tok] = @ + 1] ELSE @),
             !.redeemedUp = Keep("redeemedUp", @, IF r.res = "ok" /\ connected THEN @ \cup {tok} ELSE @),
             !.refusedStale = Keep("refusedStale", @, IF r.res = "stale" THEN @ \cup {tok} ELSE @),
             !.unregistered = Keep("unregistered", @, IF r.res = "ok" /\ ~connected
                              THEN @ \cup {Len(tokens) + 1} ELSE @)]
        /\ pc' = [pc EXCEPT ![p] = "idle"]
        /\ loc' = [loc EXCEPT ![p] = Idle]
        /\ UNCHANGED <<env, users, resetTokens, blacklist, attempts>>

\* ---- revoke_all_sessions step by step: the gate and the first pass, then
\* the second pass
RevokeAllList(p, tok) ==
    LET gate == get_current_user(tok, blacklist, sessions)
        go   == gate.res = "ok" /\ is_connected
    IN  /\ pc[p] = "idle"
        /\ sessions' = gate.se
        /\ blacklist' = IF go THEN revoke_all_list(blacklist, gate.se, gate.user)
                        ELSE blacklist
        /\ pc' = [pc EXCEPT ![p] = IF go THEN "revoke_all_listed" ELSE "idle"]
        /\ loc' = [loc EXCEPT ![p] = IF go THEN [tok |-> tok] ELSE Idle]
        /\ UNCHANGED <<env, users, resetTokens, tokens, refreshUsed, attempts, hist>>

RevokeAllDelete(p) ==
    LET user == tokens[loc[p].tok].sub
        se2  == revoke_all_delete(sessions, user)
    IN  /\ pc[p] = "revoke_all_listed"
        /\ sessions' = se2
        /\ hist' = [hist EXCEPT !.removed = Keep("removed", @, @ \cup Removed(sessions, se2))]
        /\ pc' = [pc EXCEPT ![p] = "idle"]
        /\ loc' = [loc EXCEPT ![p] = Idle]
        /\ UNCHANGED <<env, users, resetTokens, tokens, blacklist, refreshUsed, attempts>>

\* -------------------------------------------------------- specifications
\* ---- the codec on its own: a token issued, altered in transit, kept
\* ---- a request behind get_current_user step by step: the gate and the read
\* of update_session_activity (session_service.py 219), then its SETEX (224)
TouchRead(p, tok) ==
    LET g == get_current_user(tok, blacklist, sessions)
    IN  /\ pc[p] = "idle"
        /\ g.res = "ok"
        /\ get_session(sessions, g.user, tok)
        /\ pc' = [pc EXCEPT ![p] = "touch_read"]
        /\ loc' = [loc EXCEPT ![p] = [tok |-> tok]]
        /\ UNCHANGED <<env, users, resetTokens, tokens, blacklist, sessions,
                       refreshUsed, attempts, hist>>

TouchWrite(p) ==
    LET tok == loc[p].tok
    IN  /\ pc[p] = "touch_read"
        /\ sessions' = [sessions EXCEPT ![tokens[tok].sub][tok] = now + TTL_ACCESS_TOKEN]
        /\ pc' = [pc EXCEPT ![p] = "idle"]
        /\ loc' = [loc EXCEPT ![p] = Idle]
        /\ UNCHANGED <<env, users, resetTokens, tokens, blacklist, refreshUsed,
                       attempts, hist>>

ExpiresDeltas == 0 .. ACCESS_TOKEN_EXPIRE     \* expires_delta, 0 for None
JtiArgs == 0 .. 1                             \* jti, 0 for None

IssueAccess(p, data, expires_delta, jti) ==
    /\ pc[p] = "idle"
    /\ pc' = [pc EXCEPT ![p] = "issued"]
    /\ loc' = [loc EXCEPT ![p] =
                 [tok |-> 0, data |-> data, jti |-> jti, type |-> "access",
                  token |-> create_access_token_jwt(data, expires_delta, jti)]]
    /\ UNCHANGED <<env, users, resetTokens, tokens, blacklist, sessions, refreshUsed,
                   attempts, hist>>

IssueRefresh(p, data, jti) ==
    /\ pc[p] = "idle"
    /\ pc' = [pc EXCEPT ![p] = "issued"]
    /\ loc' = [loc EXCEPT ![p] =
                 [tok |-> 0, data |-> data, jti |-> jti, type |-> "refresh",
                  token |-> create_refresh_token_jwt(data, jti)]]
    /\ UNCHANGED <<env, users, resetTokens, tokens, blacklist, sessions, refreshUsed,
                   attempts, hist>>

\* the token signed again under a key that is not the server's
Resign(p, key) ==
    /\ pc[p] = "issued"
    /\ key # SECRET_KEY
    /\ pc' = [pc EXCEPT ![p] = "forged"]
    /\ loc' = [loc EXCEPT ![p].token.sig = Signature(loc[p].token.payload, key)]
    /\ UNCHANGED <<env, users, resetTokens, tokens, blacklist, sessions, refreshUsed,
                   attempts, hist>>

\* a claim of the payload rewritten under the signature of the original
Rewrite(p, k, v) ==
    /\ pc[p] = "issued"
    /\ loc[p].token.payload[k] # v
    /\ pc' = [pc EXCEPT ![p] = "forged"]
    /\ loc' = [loc EXCEPT ![p].token.payload = Update(@, [c \in {k} |-> v])]
    /\ UNCHANGED <<env, users, resetTokens, tokens, blacklist, sessions, refreshUsed,
                   attempts, hist>>

Discard(p) ==
    /\ pc[p] \in {"issued", "forged"}
    /\ pc' = [pc EXCEPT ![p] = "idle"]
    /\ loc' = [loc EXCEPT ![p] = Idle]
    /\ UNCHANGED <<env, users, resetTokens, tokens, blacklist, sessions, refreshUsed,
                   attempts, hist>>

LoginUsers == {"alice"}

\* session lifecycle: every handler runs without interruption, the store may
\* fail and time passes
Next ==
    \/ \E n \in LoginUsers, ip \in ClientIps :
          Login(n, ip, users[n].password_hash, LifeTok)
    \/ \E t \in Presentable : ValidateRequest(t)
    \/ \E t \in Presentable : Refresh(t, LifeTok)
    \/ \E t \in Presentable : Logout(t)
    \/ \E t \in Presentable, sid \in SessionIds : RevokeSession(t, sid)
    \/ \E t \in Presentable : RevokeAll(t)
    \/ StoreDown
    \/ StoreUp
    \/ Tick

Spec == Init /\ [][Next]_vars

\* the store reachable and the server clock in UTC
InitUp(kept) == Start(kept) /\ connected /\ utcOffset = 0
\* the server clock in UTC
InitUtc(kept) == Start(kept) /\ utcOffset = 0

\* accounts: the handlers that write the users table, with login, refresh and
\* the request gate; the store stays reachable and no time passes
NextAccounts ==
    \/ \E n \in LoginUsers, ip \in ClientIps :
          Login(n, ip, users[n].password_hash, LifeTok)
    \/ \E t \in Presentable : ValidateRequest(t)
    \/ \E t \in Presentable : Refresh(t, LifeTok)
    \/ \E t \in Presentable, o, p \in Passwords : ChangePassword(t, o, p)
    \/ \E t \in Presentable, o, p \in Passwords : ChangeOwnPassword(t, o, p)
    \/ \E n \in LoginUsers : ForgotPassword(n)
    \/ \E row \in resetTokens, p \in Passwords : ResetPassword(row, p)
    \/ \E u \in LoginUsers, p \in Passwords : ResetUserPassword(u, p)
    \/ \E u \in LoginUsers : DeleteUser(u)
    \/ \E u \in LoginUsers : ActivateUser(u)

SpecAccounts == InitUp(RotationHistory) /\ [][NextAccounts]_vars

\* the same handlers while the store fails and recovers
NextInvalidate ==
    \/ NextAccounts
    \/ StoreDown
    \/ StoreUp

SpecInvalidate == InitUtc(RotationHistory) /\ [][NextInvalidate]_vars

\* login throttling: every login outcome, store failures and time
ThrottleNames == {"alice"}

NextThrottle ==
    \/ \E n \in ThrottleNames, ip \in ClientIps, p \in Passwords : Login(n, ip, p, LifeTok)
    \/ StoreDown
    \/ StoreUp
    \/ Tick

SpecThrottle == InitUtc(ThrottleHistory) /\ [][NextThrottle]_vars

\* refresh handlers running concurrently, each step one round trip
NextRace ==
    \/ \E n \in LoginUsers, ip \in ClientIps :
          Login(n, ip, users[n].password_hash, MaxTok)
    \/ \E p \in Procs, t \in Presentable : RefreshCheck(p, t)
    \/ \E p \in Procs : RefreshRotate(p, MaxTok)

SpecRace == InitUp(RotationHistory) /\ [][NextRace]_vars

\* revocations running concurrently with login and refresh; the store stays
\* reachable and no time passes
NextRevoke ==
    \/ \E n \in LoginUsers, ip \in ClientIps :
          Login(n, ip, users[n].password_hash, LifeTok)
    \/ \E t \in Presentable : Refresh(t, LifeTok)
    \/ \E t \in Presentable : Logout(t)
    \/ \E t \in Presentable, sid \in SessionIds : RevokeSession(t, sid)
    \/ \E p \in Procs, t \in Presentable : RevokeAllList(p, t)
    \/ \E p \in Procs : RevokeAllDelete(p)

SpecRevoke == InitUp(SessionHistory) /\ [][NextRevoke]_vars

\* the session registry: logins from several devices, the session endpoints
\* and store failures; no time passes
NextSessions ==
    \/ \E n \in LoginUsers, ip \in ClientIps :
          Login(n, ip, users[n].password_hash, MaxTok)
    \/ \E t \in Presentable : ValidateRequest(t)
    \/ \E t \in Presentable : Logout(t)
    \/ \E t \in Presentable, sid \in SessionIds : RevokeSession(t, sid)
    \/ \E t \in Presentable : RevokeAll(t)
    \/ StoreDown
    \/ StoreUp

SpecSessions == InitUtc(SessionHistory) /\ [][NextSessions]_vars

\* logout while the store fails and recovers; no time passes
NextLogout ==
    \/ \E n \in LoginUsers, ip \in ClientIps :
          Login(n, ip, users[n].password_hash, MaxTok)
    \/ \E t \in Presentable : ValidateRequest(t)
    \/ \E t \in Presentable : Logout(t)
    \/ StoreDown
    \/ StoreUp

SpecLogout == InitUtc(LogoutHistory) /\ [][NextLogout]_vars

\* the codec: tokens issued for every token_data, altered, kept while time passes
CodecProcs == {"h1"}

NextCodec ==
    \/ \E p \in CodecProcs, data \in TokenData, d \in ExpiresDeltas, j \in JtiArgs :
          IssueAccess(p, data, d, j)
    \/ \E p \in CodecProcs, data \in TokenData, j \in JtiArgs : IssueRefresh(p, data, j)
    \/ \E p \in CodecProcs, key \in Keys : Resign(p, key)
    \/ \E p \in CodecProcs, v \in {"admin", "employee"} : Rewrite(p, "role", v)
    \/ \E p \in CodecProcs : Discard(p)
    \/ Tick

SpecCodec == InitUp({}) /\ [][NextCodec]_vars

\* requests touching their session while sessions are revoked; the store
\* stays reachable and no time passes
NextTouch ==
    \/ \E n \in LoginUsers, ip \in ClientIps :
          Login(n, ip, users[n].password_hash, MaxTok)
    \/ \E p \in Procs, t \in Presentable : TouchRead(p, t)
    \/ \E p \in Procs : TouchWrite(p)
    \/ \E t \in Presentable : Logout(t)
    \/ \E t \in Presentable, sid \in SessionIds : RevokeSession(t, sid)
    \/ \E t \in Presentable : RevokeAll(t)

SpecTouch == InitUp(SessionHistory) /\ [][NextTouch]_vars

\* mass revocation: logins, requests, refreshes, logout and revoke-all, one
\* handler at a time, while time passes; the store stays reachable
NextMass ==
    \/ \E n \in LoginUsers, ip \in ClientIps :
          Login(n, ip, users[n].password_hash, MaxTok)
    \/ \E t \in Presentable : ValidateRequest(t)
    \/ \E t \in Presentable : Refresh(t, MaxTok)
    \/ \E t \in Presentable : Logout(t)
    \/ \E t \in Presentable : RevokeAll(t)
    \/ Tick

SpecMass == InitUp(MassHistory) /\ [][NextMass]_vars

\* logins under a user name that exists and under one that does not, with
\* either password, while the store fails and time passes
LoginNames == {"alice", "nobody"}

NextNames ==
    \/ \E n \in LoginNames, ip \in ClientIps, p \in Passwords : Login(n, ip, p, LifeTok)
    \/ StoreDown
    \/ StoreUp
    \/ Tick

SpecNames == InitUtc({}) /\ [][NextNames]_vars

\* two users side by side: each logs in, refreshes, revokes and changes the
\* password, one handler at a time, while time passes; the store stays
\* reachable
NextOwners ==
    \/ \E n \in Users, ip \in ClientIps : Login(n, ip, users[n].password_hash, LifeTok)
    \/ \E t \in Presentable : Refresh(t, LifeTok)
    \/ \E t \in Presentable : Logout(t)
    \/ \E t \in Presentable, sid \in SessionIds : RevokeSession(t, sid)
    \/ \E t \in Presentable : RevokeAll(t)
    \/ \E t \in Presentable, o, p \in Passwords : ChangePassword(t, o, p)
    \/ Tick

SpecOwners == InitUp({}) /\ [][NextOwners]_vars

\* failing logins running concurrently with each other, with successful
\* logins and with the expiry of the counter; the store stays reachable
NextAttempts ==
    \/ \E p \in Procs, n \in ThrottleNames, ip \in ClientIps, pw \in Passwords :
          AttemptRead(p, n, ip, pw)
    \/ \E p \in Procs : AttemptWrite(p)
    \/ \E n \in ThrottleNames, ip \in ClientIps :
          Login(n, ip, users[n].password_hash, LifeTok)
    \/ Tick

SpecAttempts == InitUp(AttemptHistory) /\ [][NextAttempts]_vars


\* ------------------------------------------------------------------ claims
Issued == 1 .. Len(tokens)
Unexpired(t) == now < tokens[t].exp
NoSessions(se, user) == \A j \in Jtis : se[user][j] = 0
Stale(t) == tokens[t].version < users[tokens[t].sub].token_version

\* C1: whatever the interleaving of concurrent Refresh calls presenting the
\* same refresh token, at most one of them is treated as first use and issues
\* a new access+refresh pair.
C1_AtMostOneFirstUse == \A j \in Jtis : hist.redemptions[j] <= 1

C3_LoggedOutStaysRevoked ==
    \A t \in hist.loggedOut :
        tokens[t].type = "access" /\ Unexpired(t) =>
            get_current_user(t, blacklist, sessions).res = "revoked"

\* C4: once the user's token version has been incremented, ValidateRequest and
\* Refresh reject every token that embeds an earlier version, blacklisted or
\* not, store reachable or not.
C4_StaleVersionRejected ==
    \A t \in Issued :
        Stale(t) => /\ get_current_user(t, blacklist, sessions).res # "ok"
                    /\ refresh_token(t).res # "ok"

\* an unexpired access token and refresh token of an earlier version, neither
\* blacklisted, of an active user, while the store is unreachable
C4_StaleTokensOutstanding ==
    \E a, r \in Issued :
        /\ tokens[a].type = "access" /\ tokens[r].type = "refresh"
        /\ Stale(a) /\ Stale(r) /\ Unexpired(a) /\ Unexpired(r)
        /\ blacklist[a] = 0 /\ blacklist[r] = 0
        /\ users[tokens[a].sub].is_active
        /\ ~connected

\* C5: every step that changes a user's password increments that user's token
\* version and leaves the user without session records.
C5_PasswordChangeInvalidates ==
    [][\A u \in Users :
          users'[u].password_hash # users[u].password_hash =>
              /\ users'[u].token_version = users[u].token_version + 1
              /\ NoSessions(sessions', u)]_vars


RECURSIVE Failures(_, _, _)
\* the counter after k more failed attempts of the identifier
Failures(att, id, k) ==
    IF k = 0 THEN att ELSE record_login_attempt(Failures(att, id, k - 1), id, FALSE)

\* C6: for every identifier, after 5 failed login attempts within the lockout
\* window the next Login is rejected as locked even with the right password.
C6_FiveFailuresLock ==
    \A n \in Users, ip \in ClientIps :
        RecentFailures(<<n, ip>>) >= MAX_LOGIN_ATTEMPTS =>
            login(n, ip, users[n].password_hash).res = "locked"

\* C6 (amended): for every identifier, once its stored failure counter has
\* reached 5, every Login made while the store is reachable and the counter
\* has not expired is rejected as locked, with the right password too.
C6_CounterAtThresholdLocks ==
    \A n \in Names, ip \in ClientIps, p \in Passwords :
        connected /\ attempts[<<n, ip>>].count >= MAX_LOGIN_ATTEMPTS =>
            login(n, ip, p).res = "locked"

\* a login with the right password has been refused as locked, and the
\* identifier is still locked
C6_RightPasswordRefused ==
    \E id \in hist.lockedOut :
        connected /\ attempts[id].count = MAX_LOGIN_ATTEMPTS /\ attempts[id].exp > now

\* C7: a successful login of an identifier whose failure count is below the
\* threshold deletes the counter: the count read right after is 0 and five
\* further failures are needed to lock the identifier.
C7_SuccessDeletesCounter ==
    \A n \in Users, ip \in ClientIps :
        LET id == <<n, ip>>
            r  == login(n, ip, users[n].password_hash)
        IN  attempts[id].count < MAX_LOGIN_ATTEMPTS /\ r.res = "ok" =>
                /\ r.att[id] = NoAttempts
                /\ get_login_attempts(r.att, id) = 0

\* C7 (amended): the same for a successful login made while the store is
\* reachable.
C7_SuccessDeletesCounterWhileReachable ==
    \A n \in Users, ip \in ClientIps :
        LET id == <<n, ip>>
            r  == login(n, ip, users[n].password_hash)
        IN  connected /\ attempts[id].count < MAX_LOGIN_ATTEMPTS /\ r.res = "ok" =>
                /\ r.att[id] = NoAttempts
                /\ get_login_attempts(r.att, id) = 0
                /\ ~is_login_blocked(Failures(r.att, id, MAX_LOGIN_ATTEMPTS - 1), id)
                /\ is_login_blocked(Failures(r.att, id, MAX_LOGIN_ATTEMPTS), id)

\* a successful login has deleted a counter that held failures, and the
\* identifier has no counter now
C7_CounterCleared ==
    \E id \in hist.cleared : connected /\ attempts[id] = NoAttempts

\* C8: every failed login attempt (taken with the store reachable) restarts the
\* counter's TTL to the full lockout window.
C8_FailureRestartsTTL ==
    [][\A n \in Names, ip \in ClientIps, p \in Passwords :
          (/\ connected
           /\ login(n, ip, p).res = "invalid_credentials"
           /\ Login(n, ip, p, LifeTok))
          => attempts'[<<n, ip>>].exp = now + TTL_LOGIN_ATTEMPTS]_vars

\* C8 (amended): only the failed attempt that creates the counter sets its TTL
\* to the full lockout window; every further failure increments the count and
\* leaves the expiry where the first failure put it.
C8_FirstFailureSetsTTL ==
    [][\A n \in Names, ip \in ClientIps, p \in Passwords :
          (/\ connected
           /\ login(n, ip, p).res = "invalid_credentials"
           /\ Login(n, ip, p, LifeTok))
          => /\ attempts'[<<n, ip>>].count = attempts[<<n, ip>>].count + 1
             /\ attempts'[<<n, ip>>].exp =
                   IF attempts[<<n, ip>>].count = 0
                   THEN now + TTL_LOGIN_ATTEMPTS
                   ELSE attempts[<<n, ip>>].exp]_vars

\* a failure has just been counted on a counter created at an earlier tick:
\* less than a full window is left on it
C8_LaterFailureCounted ==
    \E id \in Identifiers :
        /\ connected
        /\ attempts[id].count >= 2
        /\ hist.failures[id][1] > 0
        /\ attempts[id].exp > now
        /\ attempts[id].exp < now + TTL_LOGIN_ATTEMPTS

\* C9: while an identifier is locked, Login rejects without looking up the user
\* or verifying the password and leaves the failure counter, the session
\* registry and the blacklist (and the tokens issued) unchanged.
C9_LockedLoginChangesNothing ==
    [][\A n \in Names, ip \in ClientIps, p \in Passwords :
          (is_login_blocked(attempts, <<n, ip>>) /\ Login(n, ip, p, LifeTok))
          => /\ login(n, ip, p).res = "locked"
             /\ ~login(n, ip, p).checked
             /\ UNCHANGED <<attempts, sessions, blacklist, tokens, refreshUsed>>]_vars

\* a login has been refused as locked while the counter stood at the threshold
C9_LoginRefusedLocked ==
    \E n \in Names, ip \in ClientIps :
        /\ is_login_blocked(attempts, <<n, ip>>)
        /\ <<n, ip>> \in hist.lockedOut
        /\ RecentFailures(<<n, ip>>) >= 1

\* C10: once a refresh token has been presented to Refresh and passed decoding
\* and the type check, no later Refresh accepts it, whatever the first call
\* returned.
C10_PresentedNeverAccepted ==
    \A t \in hist.presented : refresh_token(t).res # "ok"

\* C10 (amended): once a Refresh presenting the token has succeeded with the
\* store reachable, no later Refresh made with the store reachable accepts it;
\* once one has been refused for the token version, no later Refresh accepts it.
C10_ConsumedNeverAccepted ==
    \A t \in Issued :
        (t \in hist.redeemedUp /\ connected) \/ t \in hist.refusedStale =>
            refresh_token(t).res # "ok"

\* a redeemed refresh token that is unexpired, of the current version and of
\* an active user, the store reachable: only the used marker stands against it
C10_RedeemedStillValid ==
    \E t \in hist.redeemedUp :
        /\ connected /\ Unexpired(t) /\ ~Stale(t)
        /\ users[tokens[t].sub].is_active
        /\ hist.redemptions[t] = 1


Quiescent == \A p \in Procs : pc[p] = "idle"

\* C12: whatever the interleaving of RevokeSession, Logout and RevokeAll with
\* concurrent Login and Refresh of the same user, in every quiescent state each
\* unexpired access token whose session record a revocation removed is
\* blacklisted.
C12_RemovedIsBlacklisted ==
    Quiescent =>
        \A j \in hist.removed :
            tokens[j].type = "access" /\ Unexpired(j) => blacklist[j] # 0


\* the access tokens issued to a user, and the state before any revocation
AccessOf(u) == {j \in Issued : tokens[j].type = "access" /\ tokens[j].sub = u}
NoRevocation == hist.removed = {} /\ \A j \in Jtis : blacklist[j] = 0

\* revokeSession(t, sid) removes and blacklists sid only; the user's other
\* sessions stay listed and their tokens still validate
RevokesOnlyThat(u, t, sid) ==
    LET r == revoke_specific_session(t, sid)
    IN  /\ r.res = "ok"
        /\ get_user_sessions(r.se, u) = AccessOf(u) \ {sid}
        /\ \A j \in Jtis : (r.bl[j] # 0) = (j = sid)
        /\ \A j \in AccessOf(u) \ {sid} : get_current_user(j, r.bl, r.se).res = "ok"

\* C13: after N successful logins of one user with no revocation or expiry in
\* between, listSessions returns exactly N records, one per issued access jti;
\* revokeSession on one of them removes and blacklists only that one, the
\* other N-1 stay listed and their tokens still pass ValidateRequest.
C13_OneSessionPerLogin ==
    \A u \in Users :
        NoRevocation =>
            /\ get_user_sessions(sessions, u) = AccessOf(u)
            /\ \A t, sid \in AccessOf(u) : RevokesOnlyThat(u, t, sid)

\* C13 (amended): the same for logins made while the store was reachable, the
\* store reachable when the sessions are listed and revoked.
C13_OneSessionPerLoginWhileReachable ==
    \A u \in Users :
        NoRevocation /\ connected /\ hist.unregistered = {} =>
            /\ get_user_sessions(sessions, u) = AccessOf(u)
            /\ \A t, sid \in AccessOf(u) : RevokesOnlyThat(u, t, sid)

\* three logins, then one session revoked: that one is blacklisted and gone,
\* the other two are listed
C13_OneOfThreeRevoked ==
    \E u \in Users, sid \in hist.removed :
        /\ connected /\ hist.unregistered = {}
        /\ Cardinality(AccessOf(u)) = 3
        /\ hist.removed = {sid}
        /\ blacklist[sid] # 0
        /\ get_user_sessions(sessions, u) = AccessOf(u) \ {sid}


\* RevokeAll(u) blacklists every session u has, removes them all and returns
\* their number
RevokesAll(u) ==
    LET had == {j \in Jtis : sessions[u][j] # 0}
        r   == revoke_all_user_sessions(blacklist, sessions, u)
    IN  /\ \A j \in had : r.bl[j] # 0
        /\ NoSessions(r.se, u)
        /\ r.count = Cardinality(had)

WithSessions(se, u, S) ==
    [se EXCEPT ![u] = [j \in Jtis |-> IF j \in S THEN now + TTL_ACCESS_TOKEN ELSE 0]]

\* C15: the accept/reject result of ValidateRequest does not depend on the
\* session registry: for the same token, states that differ only in which
\* session records exist (present, absent, expired) give the same verdict.
C15_VerdictIgnoresSessions ==
    \A t \in Presentable, u \in Users, S \in SUBSET SessionIds :
        get_current_user(t, blacklist, WithSessions(sessions, u, S)).res
            = get_current_user(t, blacklist, sessions).res

\* a token is accepted while its session record is absent, another one of the
\* same user while its record is present
C15_AcceptedWithoutSession ==
    \E t, t2 \in SessionIds :
        /\ connected
        /\ tokens[t].sub = tokens[t2].sub
        /\ sessions[tokens[t].sub][t] = 0
        /\ sessions[tokens[t2].sub][t2] # 0
        /\ get_current_user(t, blacklist, sessions).res = "ok"
        /\ get_current_user(t2, blacklist, sessions).res = "ok"


\* the token passes every check of the gate that does not ask the store
ValidWithoutStore(t) ==
    /\ decode_token(t) # NoPayload
    /\ users[tokens[t].sub].is_active
    /\ tokens[t].version = users[tokens[t].sub].token_version

\* C16: while the session store is unreachable, Login with the correct
\* credentials of an active user succeeds and returns an access and a refresh
\* token, and ValidateRequest of an otherwise valid token returns the
\* principal; the session create or touch that failed blocks neither.
C16_OutageBlocksNeither ==
    ~connected =>
        /\ \A n \in Users, ip \in ClientIps :
              users[n].is_active =>
                  LET r == login(n, ip, users[n].password_hash)
                  IN  /\ r.res = "ok"
                      /\ Len(r.toks) = Len(tokens) + 2
                      /\ r.toks[Len(tokens) + 1].type = "access"
                      /\ r.toks[Len(tokens) + 2].type = "refresh"
                      /\ r.toks[Len(tokens) + 1].sub = n
                      /\ r.toks[Len(tokens) + 2].sub = n
        /\ \A t \in Presentable \ {0} :
              ValidWithoutStore(t) =>
                  LET g == get_current_user(t, blacklist, sessions)
                  IN  g.res = "ok" /\ g.user = tokens[t].sub

\* the store is unreachable; a login made during the outage has returned its
\* tokens, and the access token, which has no session record, is accepted
C16_LoggedInDuringOutage ==
    \E t \in hist.unregistered :
        /\ ~connected
        /\ t \in SessionIds
        /\ sessions[tokens[t].sub][t] = 0
        /\ Len(tokens) >= t + 1
        /\ get_current_user(t, blacklist, sessions).res = "ok"


\* C17: while the store is unreachable the blacklist check answers "not
\* revoked" for every jti, so ValidateRequest accepts a token blacklisted
\* earlier whose signature, expiry, user and version are valid (fail-open).
C17_BlacklistFailsOpen ==
    ~connected =>
        /\ \A j \in Jtis : ~is_token_blacklisted(blacklist, j)
        /\ \A t \in Presentable \ {0} :
              blacklist[t] # 0 /\ ValidWithoutStore(t) =>
                  get_current_user(t, blacklist, sessions).res = "ok"

\* a token was logged out and its jti is in the blacklist; the store is
\* unreachable and the request gate accepts the token
C17_RevokedAcceptedDuringOutage ==
    \E t \in hist.loggedOut :
        /\ ~connected
        /\ blacklist[t] # 0
        /\ get_current_user(t, blacklist, sessions).res = "ok"


\* C18: a store failure during Logout is never converted into a success:
\* Logout returns its success response only if the jti of the access token
\* has been recorded in the blacklist.
C18_LogoutSuccessMeansBlacklisted ==
    [][\A t \in Presentable \ {0} :
          Logout(t) /\ logout(t).res = "ok" => blacklist'[t] # 0]_vars


\* the claims of token_data, the jti and the type come back from the decoder
Preserved(l, d) ==
    /\ d # JWTError
    /\ \A k \in DOMAIN l.data : d[k] = l.data[k]
    /\ d["jti"] = (IF l.jti = 0 THEN Uuid ELSE l.jti)
    /\ d["type"] = l.type

C20_OnlyIssuanceCreatesSession ==
    [][\A u \in Users, j \in Jtis :
          sessions[u][j] = 0 /\ sessions'[u][j] # 0 =>
              j = Len(tokens) + 1 /\ Len(tokens') = Len(tokens) + 2]_vars


\* C21: after a mass revocation of user u (the revoke-all-sessions endpoint,
\* or the revokeAll triggered by refresh-token reuse), no token issued to u
\* before the revocation, access or refresh, obtains an accepted request or a
\* new token pair.
C21_MassRevokedTokensDead ==
    \A t \in hist.massRevoked :
        /\ get_current_user(t, blacklist, sessions).res # "ok"
        /\ refresh_token(t).res # "ok"


\* what each check of the gate finds for a token that decodes
Revoked(t)  == connected /\ blacklist[t] # 0
Inactive(t) == ~users[tokens[t].sub].is_active
Outdated(t) == tokens[t].version # users[tokens[t].sub].token_version

C23_UnknownNameLikeWrongPassword ==
    \A unknown \in Names \ Users, known \in Users, ip \in ClientIps, p, q \in Passwords :
        LET id1 == <<unknown, ip>>
            id2 == <<known, ip>>
            r1  == login(unknown, ip, p)
            r2  == login(known, ip, q)
        IN  q # users[known].password_hash /\ attempts[id1] = attempts[id2] =>
                /\ r1.res = r2.res
                /\ r1.att[id1] = r2.att[id2]
                /\ r1.toks = tokens /\ r2.toks = tokens
                /\ r1.se = sessions /\ r2.se = sessions

\* both identifiers have failed twice, within the same window and with the
\* store reachable; the next failure of either is answered alike
C23_BothCountersRunning ==
    /\ connected
    /\ attempts[<<"nobody", "ip1">>].count = 2
    /\ attempts[<<"alice", "ip1">>] = attempts[<<"nobody", "ip1">>]
    /\ login("nobody", "ip1", "pw1").res = "invalid_credentials"
    /\ login("alice", "ip1", "pw2").res = "invalid_credentials"


\* the bearer of t passes the gate and sid is no session of theirs
NotCallersSession(t, sid) ==
    /\ get_current_user(t, blacklist, sessions).res = "ok"
    /\ sessions[tokens[t].sub][sid] = 0

\* C24: a revoke-session request naming a session id that is not a session of
\* the calling user (another user's session, or none) is rejected, and leaves
\* every session record and the blacklist unchanged.
C24_ForeignSessionUntouched ==
    \A t \in Presentable \ {0}, sid \in Jtis :
        NotCallersSession(t, sid) =>
            LET r == revoke_specific_session(t, sid)
            IN  /\ r.res = "not_found"
                /\ r.bl = blacklist
                /\ r.se = sessions

\* C24 (amended): the request is rejected, the blacklist is unchanged and no
\* session record is created or removed; the one record that may change is
\* the caller's own session, which the request gate touches.
C24_ForeignSessionKept ==
    \A t \in Presentable \ {0}, sid \in Jtis :
        NotCallersSession(t, sid) =>
            LET r == revoke_specific_session(t, sid)
            IN  /\ r.res = "not_found"
                /\ r.bl = blacklist
                /\ \A u \in Users, j \in Jtis :
                      /\ (r.se[u][j] # 0) = (sessions[u][j] # 0)
                      /\ <<u, j>> # <<tokens[t].sub, t>> => r.se[u][j] = sessions[u][j]

\* alice and bob each hold a session; alice's token names bob's session and
\* the request is answered "not found", bob's session staying as it was
C24_OtherUsersSessionNamed ==
    \E t, sid \in SessionIds :
        /\ tokens[t].sub # tokens[sid].sub
        /\ sessions[tokens[sid].sub][sid] # 0
        /\ sessions[tokens[t].sub][t] # 0
        /\ NotCallersSession(t, sid)
        /\ revoke_specific_session(t, sid).res = "not_found"
        /\ revoke_specific_session(t, sid).se[tokens[sid].sub][sid] = sessions[tokens[sid].sub][sid]


\* the refresh of t, if it succeeds, blacklists nothing, leaves every session
\* record there is as it was, and every issued token keeps its verdict
RefreshKeepsOthers(t) ==
    LET r == refresh_token(t)
    IN  r.res = "ok" =>
            /\ r.bl = blacklist
            /\ \A u \in Users, j \in Jtis :
                  j # Len(tokens) + 1 => r.se[u][j] = sessions[u][j]
            /\ \A a \in Issued :
                  get_current_user(a, r.bl, r.se).res
                      = get_current_user(a, blacklist, sessions).res

\* the refresh of t, if it succeeds, adds the session of the new access jti
RefreshAddsSession(t) ==
    LET r == refresh_token(t)
    IN  r.res = "ok" => r.se[tokens[t].sub][Len(tokens) + 1] # 0

\* C25: a successful Refresh leaves the previously issued access token and
\* its session record unchanged: it adds one session for the new access jti,
\* removes none and blacklists nothing, so the old access token keeps
\* validating.
C25_RefreshOnlyAdds ==
    \A t \in Issued : Len(tokens) + 2 <= MaxTok => RefreshKeepsOthers(t) /\ RefreshAddsSession(t)

\* C25 (amended): the same, the session of the new access jti being added
\* when the store is reachable.
C25_RefreshOnlyAddsWhileReachable ==
    \A t \in Issued :
        Len(tokens) + 2 <= MaxTok =>
            RefreshKeepsOthers(t) /\ (connected => RefreshAddsSession(t))

\* a refresh token of a login has been redeemed with the store reachable: the
\* session of the login and that of the new access token are both present,
\* and both access tokens are accepted
C25_OldAndNewSession ==
    \E t \in hist.redeemedUp :
        /\ connected
        /\ t >= 2
        /\ Len(tokens) >= t + 2
        /\ sessions[tokens[t].sub][t - 1] # 0
        /\ \E n \in t + 1 .. Len(tokens) :
              /\ tokens[n].type = "access"
              /\ sessions[tokens[t].sub][n] # 0
              /\ get_current_user(n, blacklist, sessions).res = "ok"
        /\ get_current_user(t - 1, blacklist, sessions).res = "ok"
        /\ \A j \in Jtis : blacklist[j] = 0


\* C26: Refresh rejects any validly signed token whose type is not refresh
\* (an access token, for example), and that rejection leaves the used-marker
\* store, the session registry and the blacklist unchanged.
C26_WrongTypeRefused ==
    \A t \in Issued :
        decode_token(t) # NoPayload /\ tokens[t].type # "refresh" =>
            LET r == refresh_token(t)
            IN  /\ r.res = "invalid_type"
                /\ r.ru = refreshUsed
                /\ r.se = sessions
                /\ r.bl = blacklist
                /\ r.toks = tokens

\* the access token of a login is refused by Refresh for its type while the
\* refresh token of the same login would be redeemed
C26_AccessTokenPresented ==
    \E t \in SessionIds :
        /\ connected
        /\ t + 1 <= Len(tokens)
        /\ Len(tokens) + 2 <= LifeTok
        /\ get_current_user(t, blacklist, sessions).res = "ok"
        /\ refresh_token(t).res = "invalid_type"
        /\ refresh_token(t + 1).res = "ok"


\* C27: ValidateRequest returns a principal only for tokens whose type claim
\* is access: a validly signed, unexpired refresh token presented as a bearer
\* credential is rejected.
C27_OnlyAccessTokensAccepted ==
    \A t \in Issued :
        get_current_user(t, blacklist, sessions).res = "ok" => tokens[t].type = "access"


\* C28: every login-attempt counter key in the store carries a TTL of at most
\* the lockout window, under any interleaving of record_login_attempt with
\* key expiry and with other attempts; so a locked identifier is unlocked
\* again within one lockout window after its last recorded failure.
C28_CounterAlwaysExpires ==
    \A id \in Identifiers :
        attempts[id].count # 0 =>
            /\ attempts[id].exp # NoTTL
            /\ attempts[id].exp - now <= TTL_LOGIN_ATTEMPTS

\* C29: under concurrent failed login attempts for the same identifier no
\* failure is lost: after k failures have been recorded with no success or
\* expiry in between, the stored counter equals k.
C29_NoFailureLost ==
    Quiescent => \A id \in Identifiers : attempts[id].count = hist.recorded[id]


\* KEYS session:<u>:* lists the keys of u's session records and no other
ListsOwnKeys(u) ==
    keys(sessions, build_key(PREFIX_SESSION, u, <<"*">>))
        = {build_key(PREFIX_SESSION, u, StrJti(j)) : j \in {i \in Jtis : sessions[u][i] # 0}}

\* the session records and blacklist entries of every user but u are in
\* (bl, se) what they are in the store
OthersUntouched(u, bl, se) ==
    \A v \in Users \ {u} :
        /\ se[v] = sessions[v]
        /\ \A j \in IssuedTo(v) : bl[j] = blacklist[j]

\* C30: operations performed for one user (login, refresh, logout,
\* revokeSession, revokeAll, password change) never create, modify or delete
\* session records of a different user and never blacklist a jti issued to a
\* different user.
C30_OtherUsersUntouched ==
    /\ \A u \in Users : ListsOwnKeys(u)
    /\ \A t \in Issued :
          LET u == tokens[t].sub
              out == logout(t)
              all == revoke_all_sessions(t)
          IN  /\ OthersUntouched(u, out.bl, out.se)
              /\ OthersUntouched(u, all.bl, all.se)
              /\ \A sid \in Jtis :
                    LET one == revoke_specific_session(t, sid)
                    IN  OthersUntouched(u, one.bl, one.se)
              /\ \A o, p \in Passwords :
                    LET pw == change_password(t, o, p, change_password_invalidates)
                    IN  OthersUntouched(u, pw.bl, pw.se)
              /\ Len(tokens) + 2 <= MaxTok =>
                    LET new == refresh_token(t)
                    IN  OthersUntouched(u, new.bl, new.se)
    /\ \A u \in Users, ip \in ClientIps, p \in Passwords :
          Len(tokens) + 2 <= MaxTok =>
              OthersUntouched(u, blacklist, login(u, ip, p).se)

\* alice and bob both hold sessions; alice's revoke-all removes and
\* blacklists hers, bob's session and token stay as they are
C30_RevokeAllBesideOtherUser ==
    \E t, b \in SessionIds :
        /\ tokens[t].sub = "alice" /\ tokens[b].sub = "bob"
        /\ sessions["alice"][t] # 0 /\ sessions["bob"][b] # 0
        /\ revoke_all_sessions(t).res = "ok"
        /\ revoke_all_sessions(t).count >= 1
        /\ revoke_all_sessions(t).se["bob"][b] # 0
        /\ revoke_all_sessions(t).bl[b] = 0
        /\ revoke_all_sessions(t).bl[t] # 0

====
